---- MODULE Spec2Model ----
(***************************************************************************)
(* The semi-fungible token ledger of                                       *)
(* smart-contracts/assembly/contracts/SFT/SFT.ts.                          *)
(*                                                                         *)
(* A string is a sequence of one-character strings, so that the keys the   *)
(* contract builds by concatenation are built the same way here.  The      *)
(* fixed prefix of a key ('BALANCE', 'approved_', 'Counter', ...) is one   *)
(* symbol of the key: no prefix is equal to another or to a character, so  *)
(* two keys are equal exactly when the strings the contract builds are.    *)
(* The store is a function from the keys that are present to their values; *)
(* a u64 value is a number below U64Modulus, a string value is a string.   *)
(*                                                                         *)
(* An entry point that fails an assert stops there: the writes it made     *)
(* before the assert stay in the store (the contract rolls nothing back),  *)
(* and how the call ended is recorded in last.result.                      *)
(***************************************************************************)
EXTENDS Integers, Sequences, FiniteSets, TLC

VARIABLES storage, prevStorage, last, assigned, granted, calls

vars == << storage, prevStorage, last, assigned, granted, calls >>

(***************************************************************************)
(* Bounds of the model.                                                    *)
(***************************************************************************)
\* the number of calls made to the contract after its construction
MaxCalls == 3
\* the totalSupply argument given to the constructor
MaxSupply == 2
\* the largest amount argument of mint and transfer
MaxAmount == 2
\* u64 arithmetic is arithmetic modulo U64Modulus (2^64 in the contract)
U64Modulus == 16

\* the empty string
EmptyString == << >>
\* Address values: non-empty strings over the base58 alphabet
Addresses == { << "a" >>, << "a", "1" >>, << "b" >> }
\* raw string arguments (the from of transferFrom, the address of isApproved)
Strings == Addresses \cup { EmptyString }
\* the to argument of transferFrom
Recipients == { << "b" >>, EmptyString }
Amounts == 0 .. MaxAmount
\* the token ids that can be minted, and one whose decimal form has two digits
TokenIds == (1 .. MaxSupply) \cup { 11 }

\* The binaryArgs of the calls: every full argument list, and lists cut short.
MintArgs ==
    { << to, amount >> : to \in Addresses, amount \in Amounts }
        \cup { << >>, << << "b" >> >> }
TransferArgs ==
    { << to, tokenId, amount >> : to \in Addresses, tokenId \in TokenIds, amount \in Amounts }
        \cup { << >>, << << "b" >> >>, << << "b" >>, 1 >> }
TransferFromArgs ==
    { << from, to, tokenId >> : from \in Strings, to \in Recipients, tokenId \in TokenIds }
        \cup { << >>, << << "b" >> >>, << << "b" >>, << "b" >> >> }
ApproveArgs ==
    { << tokenId, to >> : tokenId \in TokenIds, to \in Addresses }
        \cup { << >> } \cup { << tokenId >> : tokenId \in TokenIds }

(***************************************************************************)
(* Strings and numbers.                                                    *)
(***************************************************************************)
Digit(d) == CASE d = 0 -> "0" [] d = 1 -> "1" [] d = 2 -> "2" [] d = 3 -> "3"
              [] d = 4 -> "4" [] d = 5 -> "5" [] d = 6 -> "6" [] d = 7 -> "7"
              [] d = 8 -> "8" [] d = 9 -> "9"

\* u64.toString(): the decimal digits, most significant first
RECURSIVE toString(_)
toString(n) == IF n < 10 THEN << Digit(n) >>
               ELSE toString(n \div 10) \o << Digit(n % 10) >>

\* u64 addition and subtraction wrap around
AddU64(x, y) == (x + y) % U64Modulus
SubU64(x, y) == (x - y) % U64Modulus

\* String.split(','): the pieces between the commas; the string itself when it has none
RECURSIVE split(_)
split(value) ==
    IF \A i \in 1 .. Len(value) : value[i] # ","
    THEN << value >>
    ELSE LET i == CHOOSE k \in 1 .. Len(value) :
                     /\ value[k] = ","
                     /\ \A j \in 1 .. (k - 1) : value[j] # ","
         IN  << SubSeq(value, 1, i - 1) >> \o split(SubSeq(value, i + 1, Len(value)))

\* Array.includes
includes(arr, x) == \E i \in 1 .. Len(arr) : arr[i] = x

(***************************************************************************)
(* The keys of the store.                                                  *)
(***************************************************************************)
nameKey == << "name" >>
symbolKey == << "symbol" >>
totalSupplyKey == << "totalSupply" >>
baseURIKey == << "baseURI" >>
ownerKey == << "Owner" >>
counterKey == << "Counter" >>
approvedTokenKey == << "approved_" >>
BALANCE_KEY == << "BALANCE" >>
initCounter == 0

(***************************************************************************)
(* The store: Storage of the host, as the contract's tests run it.  Reading *)
(* a key that is absent gives the empty value, deleting one does nothing.  *)
(***************************************************************************)
StorageHas(s, key) == key \in DOMAIN s
StorageGet(s, key) == IF key \in DOMAIN s THEN s[key] ELSE EmptyString
StorageSet(s, key, value) ==
    [ k \in (DOMAIN s) \cup { key } |-> IF k = key THEN value ELSE s[k] ]
StorageDel(s, key) == [ k \in (DOMAIN s) \ { key } |-> s[k] ]

\* How an entry point ends: the store it leaves, its result ("ok" or the
\* failed assert), and for mint the token id it assigned (0 when none).
Outcome(s, r, id) == [ store |-> s, result |-> r, tokenId |-> id ]

\* The binaryArgs of an entry point are the sequence of the values serialized
\* in them; args.nextString() and args.nextU64() give the next one, and
\* expect() fails the call when there is none left.
HasNext(args, i) == Len(args) >= i
\* '... argument is missing or invalid' is MalformedArguments
Malformed(s) == Outcome(s, "MalformedArguments", 0)

\* The store the constructor leaves, starting from the empty store.
constructor(caller, name, symbol, supply, baseURI) ==
    LET s0 == [ k \in {} |-> 0 ]
        s1 == StorageSet(s0, nameKey, name)
        s2 == StorageSet(s1, symbolKey, symbol)
        s3 == StorageSet(s2, totalSupplyKey, supply)
        s4 == StorageSet(s3, baseURIKey, baseURI)
        s5 == StorageSet(s4, ownerKey, caller)
    IN  StorageSet(s5, counterKey, initCounter)

(***************************************************************************)
(* Balance.                                                                *)
(***************************************************************************)
getBalanceKey(address, id) == BALANCE_KEY \o address \o toString(id)

_balance(s, address, id) ==
    LET key == getBalanceKey(address, id)
    IN  IF StorageHas(s, key) THEN StorageGet(s, key) ELSE 0

\* a bug _setBalance could have: a balance of 0 removes the entry
SetBalanceDropsZero(s, address, id, balance) ==
    IF balance = 0
    THEN StorageDel(s, getBalanceKey(address, id))
    ELSE StorageSet(s, getBalanceKey(address, id), balance)

_setBalance(s, address, id, balance) ==
    StorageSet(s, getBalanceKey(address, id), balance)

balanceOf(s, addr, id) == _balance(s, addr, id)

(***************************************************************************)
(* Supply counter and mint.                                                *)
(***************************************************************************)
_currentSupply(s) == StorageGet(s, counterKey)

currentSupply(s) == StorageGet(s, counterKey)

totalSupply(s) == StorageGet(s, totalSupplyKey)

\* a bug _increment could have: the counter advances by two
IncrementByTwo(s) ==
    LET currentID == StorageGet(s, counterKey)
    IN  StorageSet(s, counterKey, AddU64(currentID, 2))

_increment(s) ==
    LET currentID == StorageGet(s, counterKey)
    IN  StorageSet(s, counterKey, AddU64(currentID, 1))

\* a bug mint could have: the supply check is off by one
MintOffByOne(s, args) ==
    IF ~ (StorageGet(s, totalSupplyKey) >= _currentSupply(s))
    THEN Outcome(s, "SupplyExceeded", 0)
    ELSE IF ~ HasNext(args, 1) THEN Malformed(s)
    ELSE IF ~ HasNext(args, 2) THEN Malformed(s)
    ELSE LET mintAddress == args[1]
             amount == args[2]
             s1 == _increment(s)
             tokenToMint == _currentSupply(s1)
         IN  Outcome(_setBalance(s1, mintAddress, tokenToMint,
                                 AddU64(_balance(s1, mintAddress, tokenToMint), amount)),
                     "ok", tokenToMint)

\* a bug mint could have: the counter advances before the amount is decoded
MintIncrementsEarly(s, args) ==
    IF ~ (StorageGet(s, totalSupplyKey) > _currentSupply(s))
    THEN Outcome(s, "SupplyExceeded", 0)
    ELSE IF ~ HasNext(args, 1) THEN Malformed(s)
    ELSE IF ~ HasNext(args, 2) THEN Malformed(_increment(s))
    ELSE LET mintAddress == args[1]
             amount == args[2]
             s1 == _increment(s)
             tokenToMint == _currentSupply(s1)
         IN  Outcome(_setBalance(s1, mintAddress, tokenToMint,
                                 AddU64(_balance(s1, mintAddress, tokenToMint), amount)),
                     "ok", tokenToMint)

\* 'Max supply reached' is SupplyExceeded
mint(s, args) ==
    IF ~ (StorageGet(s, totalSupplyKey) > _currentSupply(s))
    THEN Outcome(s, "SupplyExceeded", 0)
    ELSE IF ~ HasNext(args, 1) THEN Malformed(s)
    ELSE IF ~ HasNext(args, 2) THEN Malformed(s)
    ELSE LET mintAddress == args[1]
             amount == args[2]
             s1 == _increment(s)
             tokenToMint == _currentSupply(s1)
         IN  Outcome(_setBalance(s1, mintAddress, tokenToMint,
                                 AddU64(_balance(s1, mintAddress, tokenToMint), amount)),
                     "ok", tokenToMint)

(***************************************************************************)
(* Approvals.                                                              *)
(***************************************************************************)
approvedKey(tokenId) == approvedTokenKey \o toString(tokenId)

\* a bug _removeApprovals could have: the lists of all token ids are removed
RemovesEveryApproval(s, tokenId) ==
    [ k \in { x \in DOMAIN s : Head(x) # Head(approvedTokenKey) } |-> s[k] ]

_removeApprovals(s, tokenId) == StorageDel(s, approvedKey(tokenId))

getApproved(s, tokenId) == StorageGet(s, approvedKey(tokenId))

isApproved(s, address, tokenId) ==
    LET value == StorageGet(s, approvedKey(tokenId))
        addresses == split(value)
    IN  includes(addresses, address)

\* a bug _approve could have: the new address replaces the stored list
ApproveOverwrites(s, tokenId, spenderAddress) ==
    StorageSet(s, approvedKey(tokenId), spenderAddress)

_approve(s, tokenId, spenderAddress) ==
    LET key == approvedKey(tokenId)
        value == IF StorageHas(s, key)
                 THEN StorageGet(s, key) \o << "," >> \o spenderAddress
                 ELSE spenderAddress
    IN  StorageSet(s, key, value)

\* a bug assertOwnsSFT could have: a balance of 0 passes
OwnsAnyBalance(s, caller, tokenId) == _balance(s, caller, tokenId) >= 0

\* the condition assertOwnsSFT asserts, for the caller of the entry point
assertOwnsSFT(s, caller, tokenId) == _balance(s, caller, tokenId) >= 1

\* the condition assertOnlyApproved asserts
assertOnlyApproved(s, from, tokenId) == isApproved(s, from, tokenId)

\* 'You are not the owner of' is NotOwner, 'You are already the owner of' is
\* SelfApproval, 'You are already allowed to transfer' is AlreadyApproved
approve(s, callerAddress, args) ==
    IF ~ HasNext(args, 1) THEN Malformed(s)
    ELSE IF ~ assertOwnsSFT(s, callerAddress, args[1])
    THEN Outcome(s, "NotOwner", 0)
    ELSE IF ~ HasNext(args, 2) THEN Malformed(s)
    ELSE LET tokenId == args[1]
             toAddress == args[2]
         IN  IF ~ (callerAddress # toAddress)
             THEN Outcome(s, "SelfApproval", 0)
             ELSE IF ~ (~ isApproved(s, callerAddress, tokenId))
             THEN Outcome(s, "AlreadyApproved", 0)
             ELSE Outcome(_approve(s, tokenId, toAddress), "ok", 0)

(***************************************************************************)
(* Transfer.                                                               *)
(***************************************************************************)
\* a bug _transfer could have: the recipient is credited before the balance check
TransferCreditsFirst(s, from, to, tokenId, amount) ==
    LET s1 == _removeApprovals(s, tokenId)
        s2 == _setBalance(s1, to, tokenId, AddU64(_balance(s1, to, tokenId), amount))
        oldBalance == _balance(s1, from, tokenId)
    IN  IF ~ (oldBalance >= amount)
        THEN Outcome(s2, "InsufficientBalance", 0)
        ELSE Outcome(_setBalance(s2, from, tokenId,
                                 SubU64(_balance(s2, from, tokenId), amount)),
                     "ok", 0)

\* 'Insufficient balance' is InsufficientBalance
_transfer(s, from, to, tokenId, amount) ==
    LET s1 == _removeApprovals(s, tokenId)
        oldBalance == _balance(s1, from, tokenId)
    IN  IF ~ (oldBalance >= amount)
        THEN Outcome(s1, "InsufficientBalance", 0)
        ELSE LET s2 == _setBalance(s1, from, tokenId, SubU64(oldBalance, amount))
             IN  Outcome(_setBalance(s2, to, tokenId,
                                     AddU64(_balance(s2, to, tokenId), amount)),
                         "ok", 0)

\* a bug transfer could have: the assertOwnsSFT the source has commented out
TransferChecksOwner(s, fromAddress, args) ==
    IF ~ HasNext(args, 3) THEN Malformed(s)
    ELSE IF ~ assertOwnsSFT(s, fromAddress, args[2])
    THEN Outcome(s, "NotOwner", 0)
    ELSE _transfer(s, fromAddress, args[1], args[2], args[3])

\* toAddress, tokenId and amount are decoded before _transfer runs
transfer(s, fromAddress, args) ==
    IF ~ HasNext(args, 3) THEN Malformed(s)
    ELSE LET toAddress == args[1]
             tokenId == args[2]
             amount == args[3]
         IN  _transfer(s, fromAddress, toAddress, tokenId, amount)

\* a bug transferFrom could have: the approvals are kept
TransferFromKeepsApprovals(s, args) ==
    IF ~ HasNext(args, 3) THEN Malformed(s)
    ELSE IF ~ assertOnlyApproved(s, args[1], args[3])
    THEN Outcome(s, "NotApproved", 0)
    ELSE Outcome(s, "ok", 0)

\* a bug transferFrom could have: it moves the balance of from to to
TransferFromMovesBalance(s, args) ==
    IF ~ HasNext(args, 3) THEN Malformed(s)
    ELSE IF ~ assertOnlyApproved(s, args[1], args[3])
    THEN Outcome(s, "NotApproved", 0)
    ELSE _transfer(s, args[1], args[2], args[3], _balance(s, args[1], args[3]))

\* 'You are not allowed to transfer this token' is NotApproved
transferFrom(s, args) ==
    IF ~ HasNext(args, 3) THEN Malformed(s)
    ELSE LET from == args[1]
             to == args[2]
             tokenId == args[3]
         IN  IF ~ assertOnlyApproved(s, from, tokenId)
             THEN Outcome(s, "NotApproved", 0)
             ELSE Outcome(_removeApprovals(s, tokenId), "ok", 0)

(***************************************************************************)
(* The state machine.                                                      *)
(*   storage      the store                                                *)
(*   prevStorage  the store before the call that last describes            *)
(*   last         the call that just ran: entry point, caller, arguments,  *)
(*                result; op is "none" once control is back with the host  *)
(*   assigned     the successful mints in order: token id, recipient and   *)
(*                amount of each                                           *)
(*   granted      per token id, the grantees of the successful approve     *)
(*                calls since its approvals were last removed              *)
(*   calls        the number of calls made so far                          *)
(***************************************************************************)
Call(op, caller, from, to, tokenId, amount, result) ==
    [ op |-> op, caller |-> caller, from |-> from, to |-> to,
      tokenId |-> tokenId, amount |-> amount, result |-> result ]

NoCall == Call("none", EmptyString, EmptyString, EmptyString, 0, 0, "ok")

Init ==
    /\ storage = constructor(<< "a" >>, << "MASSA_SFT" >>, << "SFT" >>, MaxSupply,
                             << "my.massa/" >>)
    /\ prevStorage = storage
    /\ last = NoCall
    /\ assigned = << >>
    /\ granted = [ t \in TokenIds |-> << >> ]
    /\ calls = 0

\* The host starts an entry point, which runs to completion within the step.
Invoke ==
    /\ last.op = "none"
    /\ calls < MaxCalls
    /\ calls' = calls + 1
    /\ prevStorage' = storage

\* the i-th argument of a call, or a default when the list is cut short before it
Arg(args, i, default) == IF HasNext(args, i) THEN args[i] ELSE default

\* mint does not read the caller
MintStep(argLists) ==
    \E args \in argLists :
        \E out \in { mint(storage, args) } :
            /\ storage' = out.store
            /\ last' = Call("mint", EmptyString, EmptyString, Arg(args, 1, EmptyString),
                            out.tokenId, Arg(args, 2, 0), out.result)
            /\ assigned' = IF out.result = "ok"
                           THEN Append(assigned, [ tokenId |-> out.tokenId, to |-> args[1],
                                                   amount |-> args[2] ])
                           ELSE assigned
            /\ granted' = granted

Mint ==
    /\ Invoke
    /\ MintStep(MintArgs)

Transfer ==
    /\ Invoke
    /\ \E caller \in Addresses, args \in TransferArgs :
        \E out \in { transfer(storage, caller, args) } :
            /\ storage' = out.store
            /\ last' = Call("transfer", caller, EmptyString, Arg(args, 1, EmptyString),
                            Arg(args, 2, 0), Arg(args, 3, 0), out.result)
            /\ assigned' = assigned
            /\ granted' = IF out.result # "MalformedArguments"
                          THEN [ granted EXCEPT ![args[2]] = << >> ]
                          ELSE granted

\* transferFrom does not read the caller: whoever calls, the code run is the same
TransferFrom ==
    /\ Invoke
    /\ \E caller \in Addresses, args \in TransferFromArgs :
        \E out \in { transferFrom(storage, args) } :
            /\ storage' = out.store
            /\ last' = Call("transferFrom", caller, Arg(args, 1, EmptyString),
                            Arg(args, 2, EmptyString), Arg(args, 3, 0), 0, out.result)
            /\ assigned' = assigned
            /\ granted' = IF out.result = "ok"
                          THEN [ granted EXCEPT ![args[3]] = << >> ]
                          ELSE granted

Approve ==
    /\ Invoke
    /\ \E caller \in Addresses, args \in ApproveArgs :
        \E out \in { approve(storage, caller, args) } :
            /\ storage' = out.store
            /\ last' = Call("approve", caller, EmptyString, Arg(args, 2, EmptyString),
                            Arg(args, 1, 0), 0, out.result)
            /\ assigned' = assigned
            /\ granted' = IF out.result = "ok"
                          THEN [ granted EXCEPT ![args[1]] = Append(@, args[2]) ]
                          ELSE granted

\* Control is back with the invoker: the record of the call is dropped.
Return ==
    /\ last.op # "none"
    /\ last' = NoCall
    /\ prevStorage' = storage
    /\ UNCHANGED << storage, assigned, granted, calls >>

Next == Mint \/ Transfer \/ TransferFrom \/ Approve \/ Return

Spec == Init /\ [][Next]_vars

(***************************************************************************)
(* A second state machine, for the arithmetic of the credit at the top of  *)
(* the 64-bit range.  Two credits reach the same entry only when the keys  *)
(* of two pairs coincide, and the first token ids whose keys can coincide  *)
(* are 1 and 11: the contract is constructed with a supply of WrapSupply   *)
(* and mints the largest amount to a or to a1 until the supply is reached. *)
(***************************************************************************)
WrapSupply == 11

WrapMintArgs == { << to, U64Modulus - 1 >> : to \in { << "a" >>, << "a", "1" >> } }

WrapInit ==
    /\ storage = constructor(<< "a" >>, << "MASSA_SFT" >>, << "SFT" >>, WrapSupply,
                             << "my.massa/" >>)
    /\ prevStorage = storage
    /\ last = NoCall
    /\ assigned = << >>
    /\ granted = [ t \in TokenIds |-> << >> ]
    /\ calls = 0

WrapMint ==
    /\ last.op = "none"
    /\ prevStorage' = storage
    /\ calls' = calls
    /\ MintStep(WrapMintArgs)

WrapNext == WrapMint \/ Return

SpecWrap == WrapInit /\ [][WrapNext]_vars

(***************************************************************************)
(* What the claims speak of.                                               *)
(***************************************************************************)
TypeOK ==
    /\ _currentSupply(storage) \in 0 .. MaxSupply
    /\ \A o \in Addresses, t \in TokenIds : balanceOf(storage, o, t) \in 0 .. (U64Modulus - 1)

\* the sum of balanceOf(o, tokenId) over the owners o of a set
RECURSIVE SumOfBalances(_, _, _)
SumOfBalances(s, owners, tokenId) ==
    IF owners = {} THEN 0
    ELSE LET o == CHOOSE x \in owners : TRUE
         IN  balanceOf(s, o, tokenId) + SumOfBalances(s, owners \ { o }, tokenId)

\* the amount given to the mint call that created tokenId, 0 when there is none
MintedAmount(tokenId) ==
    IF \E i \in 1 .. Len(assigned) : assigned[i].tokenId = tokenId
    THEN assigned[CHOOSE i \in 1 .. Len(assigned) : assigned[i].tokenId = tokenId].amount
    ELSE 0

BalancesUnchanged ==
    \A o \in Addresses, t \in TokenIds :
        balanceOf(storage, o, t) = balanceOf(prevStorage, o, t)

ApprovalsUnchanged ==
    \A t \in TokenIds :
        /\ StorageHas(storage, approvedKey(t)) = StorageHas(prevStorage, approvedKey(t))
        /\ getApproved(storage, t) = getApproved(prevStorage, t)

CounterUnchanged == currentSupply(storage) = currentSupply(prevStorage)

\* the addresses of a list, joined by commas in their order
RECURSIVE Join(_)
Join(list) ==
    IF list = << >> THEN EmptyString
    ELSE IF Len(list) = 1 THEN list[1]
    ELSE list[1] \o << "," >> \o Join(Tail(list))

NoDuplicate(list) ==
    \A i, j \in 1 .. Len(list) : i # j => list[i] # list[j]

\* address is one of the entries of the approval list stored for tokenId in s
Listed(s, address, tokenId) ==
    /\ StorageHas(s, approvedKey(tokenId))
    /\ includes(split(StorageGet(s, approvedKey(tokenId))), address)

(***************************************************************************)
(* C1.  Conservation: for every token id the sum over all owners of        *)
(* balanceOf(owner, tokenId) is the amount given to the mint call that     *)
(* created the token id, 0 for a token id not minted yet, and a call other *)
(* than mint leaves every such sum as it was.                              *)
(* The code breaks it: the key 'BALANCE' + owner + tokenId is the same for *)
(* (a1, 1) and (a, 11), so a mint of token 1 to a1 gives a a balance of    *)
(* the unminted token 11.                                                  *)
(***************************************************************************)
C1_Conservation ==
    /\ \A t \in TokenIds : SumOfBalances(storage, Addresses, t) = MintedAmount(t)
    /\ last.op \in { "transfer", "approve", "transferFrom" } =>
           \A t \in TokenIds : SumOfBalances(storage, Addresses, t)
                                   = SumOfBalances(prevStorage, Addresses, t)

(***************************************************************************)
(* C2.  A mint called when counter >= maxSupply fails with SupplyExceeded  *)
(* and writes nothing: the store after it is the store before it.          *)
(***************************************************************************)
C2_MintAtCapFailsUnchanged ==
    last.op = "mint" =>
        /\ currentSupply(prevStorage) >= totalSupply(prevStorage)
               => last.result = "SupplyExceeded"
        /\ last.result = "SupplyExceeded"
               => /\ currentSupply(prevStorage) >= totalSupply(prevStorage)
                  /\ storage = prevStorage

\* a mint has been refused at the cap
C2_Witness ==
    /\ last.op = "mint"
    /\ last.result = "SupplyExceeded"
    /\ currentSupply(prevStorage) = MaxSupply

(***************************************************************************)
(* C3.  A successful mint(to, amount) with counter c leaves counter c + 1, *)
(* assigns token id c + 1, makes balanceOf(to, c + 1) = amount, and        *)
(* changes no balance of another (owner, tokenId) pair and no approval     *)
(* list.                                                                   *)
(* The code breaks the frame: the mint of token 1 to a1 changes            *)
(* balanceOf(a, 11), whose key is the same.                                *)
(***************************************************************************)
C3_MintEffect ==
    (last.op = "mint" /\ last.result = "ok") =>
        /\ currentSupply(storage) = currentSupply(prevStorage) + 1
        /\ last.tokenId = currentSupply(prevStorage) + 1
        /\ balanceOf(storage, last.to, last.tokenId) = last.amount
        /\ \A o \in Addresses, t \in TokenIds :
               << o, t >> # << last.to, last.tokenId >>
                   => balanceOf(storage, o, t) = balanceOf(prevStorage, o, t)
        /\ ApprovalsUnchanged

(***************************************************************************)
(* C4.  In every state the counter is the number of successful mints so    *)
(* far, 0 <= counter <= maxSupply, no call decreases it, and the token ids *)
(* the mints assigned lie in 1 .. counter, none assigned twice.            *)
(***************************************************************************)
C4_CounterCountsMints ==
    /\ currentSupply(storage) = Len(assigned)
    /\ 0 <= currentSupply(storage)
    /\ currentSupply(storage) <= totalSupply(storage)
    /\ totalSupply(storage) = MaxSupply
    /\ currentSupply(prevStorage) <= currentSupply(storage)
    /\ \A i \in 1 .. Len(assigned) :
           /\ 1 <= assigned[i].tokenId
           /\ assigned[i].tokenId <= currentSupply(storage)
    /\ \A i, j \in 1 .. Len(assigned) :
           i # j => assigned[i].tokenId # assigned[j].tokenId

\* two token ids have been assigned
C4_Witness ==
    /\ Len(assigned) = 2
    /\ last.op = "mint"
    /\ last.result = "ok"

(***************************************************************************)
(* C5.  A successful transfer(to, tokenId, amount) by caller X takes       *)
(* exactly amount from balanceOf(X, tokenId) and adds exactly amount to    *)
(* balanceOf(to, tokenId) (to = X: the balance stays), and changes no      *)
(* balance of another (owner, tokenId) pair and not the counter.           *)
(* The code breaks the frame: a transfer of token 1 by a1 changes          *)
(* balanceOf(a, 11), whose key is the same.                                *)
(***************************************************************************)
C5_TransferEffect ==
    (last.op = "transfer" /\ last.result = "ok") =>
        /\ balanceOf(prevStorage, last.caller, last.tokenId) >= last.amount
        /\ IF last.to = last.caller
           THEN balanceOf(storage, last.caller, last.tokenId)
                    = balanceOf(prevStorage, last.caller, last.tokenId)
           ELSE /\ balanceOf(storage, last.caller, last.tokenId)
                       = balanceOf(prevStorage, last.caller, last.tokenId) - last.amount
                /\ balanceOf(storage, last.to, last.tokenId)
                       = balanceOf(prevStorage, last.to, last.tokenId) + last.amount
        /\ \A o \in Addresses, t \in TokenIds :
               (<< o, t >> # << last.caller, last.tokenId >>
                    /\ << o, t >> # << last.to, last.tokenId >>)
                   => balanceOf(storage, o, t) = balanceOf(prevStorage, o, t)
        /\ CounterUnchanged

(***************************************************************************)
(* C6.  A transfer(to, tokenId, amount) by a caller whose balance of       *)
(* tokenId is less than amount fails with InsufficientBalance; after the   *)
(* failure no balance has changed (nothing was credited, nothing wrapped   *)
(* below zero) and the approval list of tokenId is removed: the store is   *)
(* the store before the call without that list.                            *)
(***************************************************************************)
C6_FailedTransferClearsOnly ==
    last.op = "transfer" =>
        /\ balanceOf(prevStorage, last.caller, last.tokenId) < last.amount
               <=> last.result = "InsufficientBalance"
        /\ last.result = "InsufficientBalance" =>
               /\ BalancesUnchanged
               /\ ~ StorageHas(storage, approvedKey(last.tokenId))
               /\ getApproved(storage, last.tokenId) = EmptyString
               /\ storage = StorageDel(prevStorage, approvedKey(last.tokenId))

\* a transfer failed on a token that had an approval and a non-zero balance at the recipient
C6_Witness ==
    /\ last.op = "transfer"
    /\ last.result = "InsufficientBalance"
    /\ getApproved(prevStorage, last.tokenId) # EmptyString
    /\ balanceOf(storage, last.to, last.tokenId) > 0

(***************************************************************************)
(* C7.  approve(tokenId, grantee) fails whenever grantee is already in the *)
(* approval list of tokenId, so that no approval list ever holds the same  *)
(* address twice.                                                          *)
(* The code breaks it: approve tests whether the caller is in the list,    *)
(* not the grantee, so a holder approves the same grantee twice.           *)
(***************************************************************************)
C7_NoDuplicateApproval ==
    /\ (last.op = "approve" /\ Listed(prevStorage, last.to, last.tokenId))
           => last.result # "ok"
    /\ \A t \in TokenIds :
           StorageHas(storage, approvedKey(t)) => NoDuplicate(split(getApproved(storage, t)))

(***************************************************************************)
(* C8.  approve(tokenId, grantee) by caller X fails with NotOwner when     *)
(* balanceOf(X, tokenId) = 0, and with SelfApproval when grantee = X (X a  *)
(* holder: the holder check comes first); both leave the store as it was.  *)
(***************************************************************************)
C8_ApproveRejections ==
    (last.op = "approve" /\ last.result # "MalformedArguments") =>
        /\ balanceOf(prevStorage, last.caller, last.tokenId) = 0
               <=> last.result = "NotOwner"
        /\ (balanceOf(prevStorage, last.caller, last.tokenId) # 0 /\ last.to = last.caller)
               <=> last.result = "SelfApproval"
        /\ last.to = last.caller => last.result \in { "NotOwner", "SelfApproval" }
        /\ last.result \in { "NotOwner", "SelfApproval" } => storage = prevStorage

\* a holder tried to approve itself
C8_Witness ==
    /\ last.op = "approve"
    /\ last.result = "SelfApproval"
    /\ balanceOf(storage, last.caller, last.tokenId) > 0

(***************************************************************************)
(* C9.  After K successful approve calls for a token id with K pairwise    *)
(* distinct grantees, and no transfer or transferFrom on it in between,    *)
(* getApproved(tokenId) is those K addresses, each once, in the order of   *)
(* the calls (joined by commas); it is empty when there are none.          *)
(***************************************************************************)
C9_GetApprovedInOrder ==
    \A t \in TokenIds :
        NoDuplicate(granted[t]) =>
            /\ getApproved(storage, t) = Join(granted[t])
            /\ granted[t] # << >> => split(getApproved(storage, t)) = granted[t]

\* two distinct grantees have been approved for one token id
C9_Witness ==
    \E t \in TokenIds :
        /\ Len(granted[t]) = 2
        /\ NoDuplicate(granted[t])
        /\ last.op = "approve"
        /\ last.result = "ok"

Granted(address, tokenId) ==
    \E i \in 1 .. Len(granted[tokenId]) : granted[tokenId][i] = address

\* the last call was a successful mint or transfer that credited (owner, tokenId)
Credited(owner, tokenId) ==
    /\ last.op \in { "mint", "transfer" }
    /\ last.result = "ok"
    /\ last.to = owner
    /\ last.tokenId = tokenId

\* the last call was a successful transfer that debited (owner, tokenId)
Debited(owner, tokenId) ==
    /\ last.op = "transfer"
    /\ last.result = "ok"
    /\ last.caller = owner
    /\ last.tokenId = tokenId

(***************************************************************************)
(* C11.  A transferFrom whose from argument is not an entry of the         *)
(* approval list of its tokenId, in particular when there is no list,      *)
(* fails with NotApproved, and a failed transferFrom leaves the store      *)
(* (approval lists, balances, counter) as it was.                          *)
(* The code breaks it: isApproved splits the '' read for an absent list    *)
(* into [''], so transferFrom with from = '' succeeds without any list     *)
(* (the defect of C14).                                                    *)
(***************************************************************************)
C11_TransferFromNeedsMembership ==
    (last.op = "transferFrom" /\ last.result # "MalformedArguments") =>
        /\ ~ Listed(prevStorage, last.from, last.tokenId) => last.result = "NotApproved"
        /\ last.result = "NotApproved" => storage = prevStorage

C13_BalanceKeyInjective ==
    (last.op \in { "mint", "transfer" } /\ last.result = "ok") =>
        \A o \in Addresses, t \in TokenIds :
            ~ (Credited(o, t) \/ Debited(o, t)) =>
                /\ getBalanceKey(o, t) # getBalanceKey(last.to, last.tokenId)
                /\ last.op = "transfer" =>
                       getBalanceKey(o, t) # getBalanceKey(last.caller, last.tokenId)
                /\ balanceOf(storage, o, t) = balanceOf(prevStorage, o, t)

(***************************************************************************)
(* C14.  isApproved is an exact membership test: it is true of an address  *)
(* and a tokenId exactly when the address was approved for the tokenId     *)
(* since its list was last removed, so it is false of every address, the   *)
(* empty string included, when the list is empty or absent.                *)
(* The code breaks it: ''.split(',') is [''], so isApproved('', tokenId)   *)
(* is true when there is no list.                                          *)
(***************************************************************************)
C14_IsApprovedIsMembership ==
    \A a \in Strings, t \in TokenIds :
        isApproved(storage, a, t) <=> Granted(a, t)

(***************************************************************************)
(* C15.  balanceOf is 0 for every pair that was never the recipient of a   *)
(* mint or transfer: a balanceOf that was 0 before a call is 0 after it    *)
(* unless the call is a successful mint or transfer crediting that pair.   *)
(* The code breaks it through the key collision of C13: a mint of token 1  *)
(* to a1 makes balanceOf(a, 11) non-zero.                                  *)
(***************************************************************************)
C15_UncreditedBalanceIsZero ==
    \A o \in Addresses, t \in TokenIds :
        (balanceOf(prevStorage, o, t) = 0 /\ ~ Credited(o, t))
            => balanceOf(storage, o, t) = 0

(***************************************************************************)
(* C17.  In mint, approve and transferFrom every validation (supply cap,   *)
(* argument decoding, holder check, self-approval, already-approved,       *)
(* approved check) runs before the first write to the store: a call of one *)
(* of them that fails leaves the store identical to the one before it.     *)
(***************************************************************************)
C17_ValidationBeforeWrite ==
    (last.op \in { "mint", "approve", "transferFrom" } /\ last.result # "ok")
        => storage = prevStorage

\* a mint below the cap failed on its missing amount, after its address was
\* decoded, and left the store as it was
C17_Witness ==
    /\ last.op = "mint"
    /\ last.result = "MalformedArguments"
    /\ last.to # EmptyString
    /\ totalSupply(prevStorage) > currentSupply(prevStorage)
    /\ currentSupply(prevStorage) > initCounter
    /\ storage = prevStorage

\* key is the key of a balance entry
IsBalanceKey(key) == Head(key) = Head(BALANCE_KEY)

(***************************************************************************)
(* C18.  The balance store is sparse: every balance entry present in the   *)
(* store holds a value greater than 0, also after a mint of amount 0, a    *)
(* transfer of an entire balance and a transfer of amount 0 to a new       *)
(* recipient.  This is the statement as the specification makes it; the    *)
(* code writes the entry whatever the value and never deletes one.         *)
(***************************************************************************)
C18_EveryEntryPositive ==
    \A k \in DOMAIN storage : IsBalanceKey(k) => storage[k] > 0

(***************************************************************************)
(* C18, amended.  Balance entries are written by every successful mint     *)
(* (for the recipient) and transfer (for sender and recipient) whatever    *)
(* the resulting value, and are never deleted: an entry present before a   *)
(* call is present after it, an entry holds a value in 0 .. 2^64 - 1, and  *)
(* balanceOf is 0 for a pair whose entry is absent.                        *)
(***************************************************************************)
C18_EntriesPersist ==
    /\ \A k \in DOMAIN prevStorage : IsBalanceKey(k) => k \in DOMAIN storage
    /\ \A k \in DOMAIN storage : IsBalanceKey(k) => storage[k] \in 0 .. (U64Modulus - 1)
    /\ (last.op \in { "mint", "transfer" } /\ last.result = "ok") =>
           StorageHas(storage, getBalanceKey(last.to, last.tokenId))
    /\ (last.op = "transfer" /\ last.result = "ok") =>
           StorageHas(storage, getBalanceKey(last.caller, last.tokenId))
    /\ \A o \in Addresses, t \in TokenIds :
           ~ StorageHas(storage, getBalanceKey(o, t)) => balanceOf(storage, o, t) = 0

\* a successful transfer of an entire, non-zero balance to somebody else left
\* the sender's entry in the store with the value 0
C18_Witness ==
    /\ last.op = "transfer"
    /\ last.result = "ok"
    /\ last.amount > 0
    /\ last.to # last.caller
    /\ balanceOf(prevStorage, last.caller, last.tokenId) = last.amount
    /\ StorageHas(storage, getBalanceKey(last.caller, last.tokenId))
    /\ StorageGet(storage, getBalanceKey(last.caller, last.tokenId)) = 0

\* the entries of the approval list stored for tokenId in s, none when absent
ApprovalList(s, tokenId) ==
    IF StorageHas(s, approvedKey(tokenId))
    THEN split(StorageGet(s, approvedKey(tokenId)))
    ELSE << >>

\* the approval list of tokenId is in storage what it was in prevStorage
ListUnchanged(tokenId) ==
    /\ StorageHas(storage, approvedKey(tokenId)) = StorageHas(prevStorage, approvedKey(tokenId))
    /\ getApproved(storage, tokenId) = getApproved(prevStorage, tokenId)

(***************************************************************************)
(* C19.  Approval lists change only through approve and through clearing:  *)
(* a successful approve changes nothing in the store but the list of its   *)
(* tokenId, which gains the grantee at its end; a failed approve and a     *)
(* mint change no list; a transfer or transferFrom on one tokenId leaves   *)
(* the lists of all other token ids as they were; and a list is stored     *)
(* only for a tokenId with a successful approve since its last clearing.   *)
(***************************************************************************)
C19_ListsChangeByApproveOrClear ==
    /\ (last.op = "approve" /\ last.result = "ok") =>
           /\ \A k \in (DOMAIN storage \cup DOMAIN prevStorage) \ { approvedKey(last.tokenId) } :
                  /\ k \in DOMAIN storage
                  /\ k \in DOMAIN prevStorage
                  /\ storage[k] = prevStorage[k]
           /\ ApprovalList(storage, last.tokenId)
                  = Append(ApprovalList(prevStorage, last.tokenId), last.to)
    /\ (last.op = "approve" /\ last.result # "ok") => ApprovalsUnchanged
    /\ last.op = "mint" => ApprovalsUnchanged
    /\ last.op \in { "transfer", "transferFrom" } =>
           \A t \in TokenIds \ { last.tokenId } : ListUnchanged(t)
    /\ \A t \in TokenIds :
           StorageHas(storage, approvedKey(t)) => granted[t] # << >>

\* a successful transfer removed the list of its tokenId while the list of
\* another token id stayed in the store
C19_Witness ==
    /\ last.op = "transfer"
    /\ last.result = "ok"
    /\ \E t \in TokenIds \ { last.tokenId } :
           /\ StorageHas(prevStorage, approvedKey(t))
           /\ StorageHas(storage, approvedKey(t))

C16_CreditNeverWraps ==
    /\ (/\ last.result = "ok"
        /\ \/ last.op = "mint"
           \/ last.op = "transfer" /\ last.to # last.caller) =>
           balanceOf(storage, last.to, last.tokenId)
               = balanceOf(prevStorage, last.to, last.tokenId) + last.amount
    /\ last.result = "Overflow" => storage = prevStorage

\* what the transferFrom that just ran would have done from the same store
\* with the same from and tokenId and any other to, is what it did; the
\* caller is no input of transferFrom at all
TransferFromIgnoresCallerAndTo ==
    \A to \in Strings :
        \E other \in { transferFrom(prevStorage, << last.from, to, last.tokenId >>) } :
            /\ other.result = last.result
            /\ other.store = storage

(***************************************************************************)
(* C21.  The outcome and the effect of transferFrom(from, to, tokenId) do  *)
(* not depend on the caller nor on to: two runs from the same store that   *)
(* differ only in them both succeed or both fail and end in the same       *)
(* store, and the call succeeds exactly when from is an entry of the       *)
(* approval list of tokenId.                                               *)
(* The code breaks the last part: isApproved is true of '' when no list is *)
(* stored (the defect of C14), so success is not decided by membership.    *)
(***************************************************************************)
C21_TransferFromDependsOnFromOnly ==
    (last.op = "transferFrom" /\ last.result # "MalformedArguments") =>
        /\ TransferFromIgnoresCallerAndTo
        /\ last.result = "ok" <=> Listed(prevStorage, last.from, last.tokenId)

====
